---- MODULE Spec2Model ----
(***************************************************************************)
(* Model of the project-manager application: the ProjectState store, the   *)
(* validate helper, the ProjectInput form and the two ProjectList views    *)
(* with their drag-and-drop handlers.                                      *)
(*                                                                         *)
(* Strings typed into the form are sequences of one-character strings, so  *)
(* that length, trim and the unary-plus conversion are computed.  Project  *)
(* ids and drag payload texts are opaque strings.  Numbers are decimal     *)
(* fractions [nan, num, den] (value num/den, den a power of ten).          *)
(***************************************************************************)
EXTENDS Integers, Sequences, FiniteSets, TLC

VARIABLES
    objs,        \* heap of Project objects, in creation order (index = reference)
    projects,    \* ProjectState.projects: sequence of references into objs
    listeners,   \* State.listeners, in registration order
    held,        \* per listener: the list a subscriber kept from its last call
    assigned,    \* ProjectList.assignedProjects, per list type
    rendered,    \* rows of the <ul> of each list, per list type
    droppable,   \* per list type: the <ul> carries the class "droppable"
    titleInput,  \* value of the #title input element
    descriptionInput, \* value of the #description input element
    peopleInput, \* value of the #people input element
    drag,        \* the drag in progress (its DragEvent.dataTransfer), or NoDrag
    over,        \* the list the dragged item is over, or "none"
    permit,      \* the list whose last dragover was cancelled (drop allowed), or "none"
    calls,       \* listener invocations made by the last handler, in order
    alerted,     \* the last handler raised the alert
    error,       \* the last handler threw an exception
    lastOp,      \* the last handler and its inputs
    validation   \* a call of validate on its own: its argument and its result

vars == <<objs, projects, listeners, held, assigned, rendered, droppable,
          titleInput, descriptionInput, peopleInput, drag, over, permit,
          calls, alerted, error, lastOp, validation>>

(***************************************************************************)
(* Bounds                                                                  *)
(***************************************************************************)
MaxProjects == 2
MaxListeners == 3
MaxHeld == 2

(***************************************************************************)
(* Strings as character sequences                                          *)
(***************************************************************************)
Digits == <<"0", "1", "2", "3", "4", "5", "6", "7", "8", "9">>

IsDigit(c) == \E i \in 1..10 : Digits[i] = c

DigitVal(c) == (CHOOSE i \in 1..10 : Digits[i] = c) - 1

IsSpace(c) == c = " "

RECURSIVE TrimStart(_)
TrimStart(s) ==
    IF s # <<>> /\ IsSpace(Head(s)) THEN TrimStart(Tail(s)) ELSE s

RECURSIVE TrimEnd(_)
TrimEnd(s) ==
    IF s # <<>> /\ IsSpace(s[Len(s)]) THEN TrimEnd(SubSeq(s, 1, Len(s) - 1)) ELSE s

\* String.prototype.trim
Trim(s) == TrimEnd(TrimStart(s))

(***************************************************************************)
(* Numbers                                                                 *)
(***************************************************************************)
NaN == [nan |-> TRUE, num |-> 0, den |-> 1]

Num(n, d) == [nan |-> FALSE, num |-> n, den |-> d]

AllDigits(s) == \A i \in 1..Len(s) : IsDigit(s[i])

RECURSIVE DigitsValue(_, _)
DigitsValue(s, acc) ==
    IF s = <<>> THEN acc ELSE DigitsValue(Tail(s), acc * 10 + DigitVal(Head(s)))

RECURSIVE Pow10(_)
Pow10(k) == IF k = 0 THEN 1 ELSE 10 * Pow10(k - 1)

DotAt(s) == IF \E i \in 1..Len(s) : s[i] = "."
            THEN CHOOSE i \in 1..Len(s) : s[i] = "." /\ \A j \in 1..(i - 1) : s[j] # "."
            ELSE 0

\* an unsigned decimal literal: digits, optionally a point and more digits
UnsignedToNumber(s) ==
    LET dot == DotAt(s) IN
    IF dot = 0
    THEN IF s # <<>> /\ AllDigits(s) THEN Num(DigitsValue(s, 0), 1) ELSE NaN
    ELSE LET ip == SubSeq(s, 1, dot - 1)
             fp == SubSeq(s, dot + 1, Len(s))
         IN  IF AllDigits(ip) /\ AllDigits(fp) /\ Len(ip) + Len(fp) > 0
             THEN Num(DigitsValue(ip \o fp, 0), Pow10(Len(fp)))
             ELSE NaN

\* the unary plus applied to a string (StringToNumber): whitespace is trimmed,
\* the empty string is 0, a signed decimal literal is its value, else NaN
ToNumber(s) ==
    LET t == Trim(s) IN
    IF t = <<>> THEN Num(0, 1)
    ELSE IF Head(t) = "-"
         THEN LET u == UnsignedToNumber(Tail(t)) IN
              IF u.nan THEN NaN ELSE Num(0 - u.num, u.den)
         ELSE IF Head(t) = "+" THEN UnsignedToNumber(Tail(t))
         ELSE UnsignedToNumber(t)

\* x >= k and x <= k for a number x and an integer k (false for NaN)
NumGE(x, k) == ~x.nan /\ x.num >= k * x.den

NumLE(x, k) == ~x.nan /\ x.num <= k * x.den

RECURSIVE NatToString(_)
NatToString(n) ==
    IF n < 10 THEN <<Digits[n + 1]>>
    ELSE NatToString(n \div 10) \o <<Digits[(n % 10) + 1]>>

RECURSIVE FracDigits(_, _)
FracDigits(r, den) ==
    IF r = 0 THEN <<>>
    ELSE <<Digits[((r * 10) \div den) + 1]>> \o FracDigits((r * 10) % den, den)

\* Number.prototype.toString
NumberToString(x) ==
    IF x.nan THEN <<"N", "a", "N">>
    ELSE LET a == IF x.num < 0 THEN 0 - x.num ELSE x.num
             f == FracDigits(a % x.den, x.den)
         IN  (IF x.num < 0 THEN <<"-">> ELSE <<>>)
             \o NatToString(a \div x.den)
             \o (IF f = <<>> THEN <<>> ELSE <<".">> \o f)

(***************************************************************************)
(* validate                                                                *)
(***************************************************************************)
\* an optional constraint: absent, or present with its value
Absent == <<>>

Present(x) == <<x>>

StrValue(s) == [type |-> "string", str |-> s, number |-> NaN]

NumValue(x) == [type |-> "number", str |-> <<>>, number |-> x]

\* value.toString()
ValueToString(v) == IF v.type = "string" THEN v.str ELSE NumberToString(v.number)

Validatable(v, req, minLen, maxLen, mn, mx) ==
    [value |-> v, required |-> req, minLength |-> minLen, maxLength |-> maxLen,
     min |-> mn, max |-> mx]

\* mutant: minLength and max are compared strictly
validateStrict(validatableInput) ==
    LET v == validatableInput.value
        v1 == IF validatableInput.required = TRUE
              THEN Len(Trim(ValueToString(v))) # 0
              ELSE TRUE
        v2 == IF validatableInput.minLength # Absent /\ v.type = "string"
              THEN v1 /\ Len(v.str) > validatableInput.minLength[1]
              ELSE v1
        v3 == IF validatableInput.maxLength # Absent /\ v.type = "string"
              THEN v2 /\ Len(v.str) <= validatableInput.maxLength[1]
              ELSE v2
        v4 == IF validatableInput.min # Absent /\ v.type = "number"
              THEN v3 /\ NumGE(v.number, validatableInput.min[1])
              ELSE v3
        v5 == IF validatableInput.max # Absent /\ v.type = "number"
              THEN v4 /\ v.number.num < validatableInput.max[1] * v.number.den
              ELSE v4
    IN  v5

\* mutant: each test overwrites the result of the tests before it
validateOverwrite(validatableInput) ==
    LET v == validatableInput.value
        v1 == IF validatableInput.required = TRUE
              THEN Len(Trim(ValueToString(v))) # 0
              ELSE TRUE
        v2 == IF validatableInput.minLength # Absent /\ v.type = "string"
              THEN Len(v.str) >= validatableInput.minLength[1]
              ELSE v1
        v3 == IF validatableInput.maxLength # Absent /\ v.type = "string"
              THEN Len(v.str) <= validatableInput.maxLength[1]
              ELSE v2
        v4 == IF validatableInput.min # Absent /\ v.type = "number"
              THEN NumGE(v.number, validatableInput.min[1])
              ELSE v3
        v5 == IF validatableInput.max # Absent /\ v.type = "number"
              THEN NumLE(v.number, validatableInput.max[1])
              ELSE v4
    IN  v5

validate(validatableInput) ==
    LET v == validatableInput.value
        v1 == IF validatableInput.required = TRUE
              THEN Len(Trim(ValueToString(v))) # 0
              ELSE TRUE
        v2 == IF validatableInput.minLength # Absent /\ v.type = "string"
              THEN v1 /\ Len(v.str) >= validatableInput.minLength[1]
              ELSE v1
        v3 == IF validatableInput.maxLength # Absent /\ v.type = "string"
              THEN v2 /\ Len(v.str) <= validatableInput.maxLength[1]
              ELSE v2
        v4 == IF validatableInput.min # Absent /\ v.type = "number"
              THEN v3 /\ NumGE(v.number, validatableInput.min[1])
              ELSE v3
        v5 == IF validatableInput.max # Absent /\ v.type = "number"
              THEN v4 /\ NumLE(v.number, validatableInput.max[1])
              ELSE v4
    IN  v5

(***************************************************************************)
(* Project and ProjectState                                                *)
(***************************************************************************)
ListTypes == {"active", "finished"}

Project(id, title, description, people, status) ==
    [id |-> id, title |-> title, description |-> description,
     people |-> people, status |-> status]

ListListener(type) == [kind |-> "list", arg |-> type]

ProbeListener(op) == [kind |-> "probe", arg |-> op]

\* what a subscriber other than a ProjectList does to the list it receives, in
\* its callback and afterwards
CallbackOps == {"keep", "pop"}

LaterOps == {"reverse", "push"}

NoHeld == [live |-> FALSE, items |-> <<>>]

RECURSIVE Reverse(_)
Reverse(s) == IF s = <<>> THEN <<>> ELSE Append(Reverse(Tail(s)), Head(s))

\* Array.prototype.slice without arguments: a new array with the same elements
Slice(list) == [live |-> FALSE, items |-> list]

\* mutant: the listener is handed this.projects itself
ListenerArgLive(list) == [live |-> TRUE, items |-> list]

\* the argument handed to a listener: this.projects.slice()
ListenerArg(list) == Slice(list)

\* pop, reverse and push on an array of project references
ApplyOp(op, items) ==
    CASE op = "pop" -> IF items = <<>> THEN items ELSE SubSeq(items, 1, Len(items) - 1)
      [] op = "reverse" -> Reverse(items)
      [] op = "push" -> IF items # <<>> /\ Len(items) < MaxHeld
                        THEN Append(items, items[1]) ELSE items
      [] OTHER -> items

\* mutant: the type of the list is not looked at
ListFilterActiveOnly(type, proj) == proj.status = "Active"

\* the status a ProjectList of the given type shows
ListFilter(type, proj) ==
    IF type = "active" THEN proj.status = "Active" ELSE proj.status = "Finished"

RECURSIVE FilterProjects(_, _, _)
FilterProjects(type, items, os) ==
    IF items = <<>> THEN <<>>
    ELSE (IF ListFilter(type, os[Head(items)]) THEN <<Head(items)>> ELSE <<>>)
         \o FilterProjects(type, Tail(items), os)

\* renderProjects: the <ul> is emptied, then one row is appended per assigned project
RECURSIVE RenderRows(_, _, _)
RenderRows(rows, items, os) ==
    IF items = <<>> THEN rows
    ELSE RenderRows(Append(rows, [proj |-> Head(items), text |-> os[Head(items)].title]),
                    Tail(items), os)

renderProjects(assignedProjects, os) == RenderRows(<<>>, assignedProjects, os)

\* the listener a ProjectList registers in configure
ProjectListListener(st, type, items) ==
    LET a == FilterProjects(type, items, st.objs) IN
    [st EXCEPT !.assigned[type] = a,
               !.rendered[type] = renderProjects(a, st.objs)]

\* any other subscriber: changes the list it received and keeps it
ProbeCallback(st, i, op, arg) ==
    LET new == ApplyOp(op, arg.items) IN
    [st EXCEPT !.projects = IF arg.live THEN new ELSE @,
               !.held[i] = [live |-> arg.live, items |-> new]]

CallListener(st, i) ==
    LET l == st.listeners[i]
        arg == ListenerArg(st.projects)
        st1 == [st EXCEPT !.calls = Append(@, [listener |-> i, items |-> arg.items])]
    IN  IF l.kind = "list"
        THEN ProjectListListener(st1, l.arg, arg.items)
        ELSE ProbeCallback(st1, i, l.arg, arg)

\* for (const listener of this.listeners) listener(this.projects.slice())
RECURSIVE NotifyFrom(_, _)
NotifyFrom(st, i) ==
    IF i > Len(st.listeners) THEN st ELSE NotifyFrom(CallListener(st, i), i + 1)

\* mutant: the listeners are called from the last registered to the first
RECURSIVE NotifyDownFrom(_, _)
NotifyDownFrom(st, i) ==
    IF i < 1 THEN st ELSE NotifyDownFrom(CallListener(st, i), i - 1)

NotifyListenersLastFirst(st) == NotifyDownFrom(st, Len(st.listeners))

NotifyListeners(st) == NotifyFrom(st, 1)

\* the state a handler starts from
Start ==
    [objs |-> objs, projects |-> projects, listeners |-> listeners, held |-> held,
     assigned |-> assigned, rendered |-> rendered, calls |-> <<>>, error |-> FALSE]

\* mutant: the new project is put in front (unshift instead of push)
addProjectsUnshift(st, id, title, description, people) ==
    LET project == Project(id, title, description, people, "Active")
        os == Append(st.objs, project)
    IN  NotifyListeners([st EXCEPT !.objs = os,
                                   !.projects = <<Len(os)>> \o @])

addProjects(st, id, title, description, people) ==
    LET project == Project(id, title, description, people, "Active")
        os == Append(st.objs, project)
    IN  NotifyListeners([st EXCEPT !.objs = os,
                                   !.projects = Append(@, Len(os))])

\* projects.find((prj) => prj.id === id): position of the first match, or 0
FindProject(st, id) ==
    IF \E i \in 1..Len(st.projects) : st.objs[st.projects[i]].id = id
    THEN CHOOSE i \in 1..Len(st.projects) :
            /\ st.objs[st.projects[i]].id = id
            /\ \A j \in 1..(i - 1) : st.objs[st.projects[j]].id # id
    ELSE 0

\* mutant: the status is compared and set without checking that a project was found
moveProjectUnguarded(st, id, newStatus) ==
    LET i == FindProject(st, id) IN
    IF i = 0 THEN [st EXCEPT !.error = TRUE]
    ELSE IF st.objs[st.projects[i]].status # newStatus
         THEN NotifyListeners([st EXCEPT !.objs[st.projects[i]].status = newStatus])
         ELSE st

moveProject(st, id, newStatus) ==
    LET i == FindProject(st, id) IN
    IF i # 0 /\ st.objs[st.projects[i]].status # newStatus
    THEN NotifyListeners([st EXCEPT !.objs[st.projects[i]].status = newStatus])
    ELSE st

addListener(st, listener) ==
    [st EXCEPT !.listeners = Append(@, listener), !.held = Append(@, NoHeld)]

(***************************************************************************)
(* ProjectInput                                                            *)
(***************************************************************************)
\* mutant: the input is rejected only if all three validations fail
gatherUserInputAllFail(enteredTitle, enteredDescription, enterdPeople) ==
    LET titleValidatable ==
            Validatable(StrValue(enteredTitle), TRUE, Absent, Absent, Absent, Absent)
        descriptionValidatable ==
            Validatable(StrValue(enteredDescription), TRUE, Present(5), Absent, Absent, Absent)
        peopleValidatable ==
            Validatable(NumValue(ToNumber(enterdPeople)), TRUE, Absent, Absent,
                        Present(1), Present(5))
    IN  IF /\ ~validate(titleValidatable)
           /\ ~validate(descriptionValidatable)
           /\ ~validate(peopleValidatable)
        THEN [ok |-> FALSE, title |-> <<>>, description |-> <<>>, people |-> NaN]
        ELSE [ok |-> TRUE, title |-> enteredTitle, description |-> enteredDescription,
              people |-> ToNumber(enterdPeople)]

gatherUserInput(enteredTitle, enteredDescription, enterdPeople) ==
    LET titleValidatable ==
            Validatable(StrValue(enteredTitle), TRUE, Absent, Absent, Absent, Absent)
        descriptionValidatable ==
            Validatable(StrValue(enteredDescription), TRUE, Present(5), Absent, Absent, Absent)
        peopleValidatable ==
            Validatable(NumValue(ToNumber(enterdPeople)), TRUE, Absent, Absent,
                        Present(1), Present(5))
    IN  IF \/ ~validate(titleValidatable)
           \/ ~validate(descriptionValidatable)
           \/ ~validate(peopleValidatable)
        THEN [ok |-> FALSE, title |-> <<>>, description |-> <<>>, people |-> NaN]
        ELSE [ok |-> TRUE, title |-> enteredTitle, description |-> enteredDescription,
              people |-> ToNumber(enterdPeople)]

NoOp == [op |-> "other", args |-> <<>>]

\* the user fills the three fields with t, d, p and submits the form; id is the
\* value Math.random().toString() yields should a project be created
\* mutant: only the title field is emptied
clearInputsTitleOnly(fields) == [fields EXCEPT !.title = <<>>]

\* ProjectInput.clearInputs: the value of each of the three fields becomes ""
clearInputs(fields) == [title |-> <<>>, description |-> <<>>, people |-> <<>>]

Submit(t, d, p, id) ==
    \E userInput \in {gatherUserInput(t, d, p)} :
    \E fields \in {IF userInput.ok
                   THEN clearInputs([title |-> t, description |-> d, people |-> p])
                   ELSE [title |-> t, description |-> d, people |-> p]} :
    \E st \in {IF userInput.ok
               THEN addProjects(Start, id, userInput.title, userInput.description,
                                userInput.people)
               ELSE Start} :
        /\ userInput.ok => Len(objs) < MaxProjects
        /\ objs' = st.objs
        /\ projects' = st.projects
        /\ held' = st.held
        /\ assigned' = st.assigned
        /\ rendered' = st.rendered
        /\ calls' = st.calls
        /\ error' = st.error
        /\ alerted' = ~userInput.ok
        /\ titleInput' = fields.title
        /\ descriptionInput' = fields.description
        /\ peopleInput' = fields.people
        /\ lastOp' = [op |-> "submit", args |-> <<t, d, p>>]
        /\ UNCHANGED <<validation, listeners, droppable, drag, over, permit>>

(***************************************************************************)
(* Drag and drop                                                           *)
(***************************************************************************)
NoDrag == [active |-> FALSE, transfer |-> FALSE, types |-> <<>>, text |-> ""]

Payload(types, text) == [active |-> TRUE, transfer |-> TRUE, types |-> types, text |-> text]

\* a DragEvent whose dataTransfer is null
NullTransfer == [active |-> TRUE, transfer |-> FALSE, types |-> <<>>, text |-> ""]

\* DataTransfer.getData(format): the data of that format, or the empty string
getData(dt, format) ==
    IF \E i \in 1..Len(dt.types) : dt.types[i] = format THEN dt.text ELSE ""

\* ProjectItem.dragStartHandler: the payload is the project's id as text/plain
dragStartHandler(project) == Payload(<<"text/plain">>, project.id)

\* mutant: the two statuses are exchanged
DropStatusExchanged(type) == IF type = "active" THEN "Finished" ELSE "Active"

\* the status a list of the given type asks for on a drop
DropStatus(type) == IF type = "active" THEN "Active" ELSE "Finished"

\* mutant: the first type of the payload is not looked at
dragOverHandlerAnyTransfer(event) == event.transfer

\* whether dragOverHandler cancels the event (permits a drop) and marks the list
dragOverHandler(event) ==
    event.transfer /\ Len(event.types) >= 1 /\ event.types[1] = "text/plain"

dropHandler(st, type, event) ==
    IF ~event.transfer THEN [st EXCEPT !.error = TRUE]
    ELSE moveProject(st, getData(event, "text/plain"), DropStatus(type))

\* the user starts dragging row k of the list of the given type
DragStart(type, k) ==
    /\ ~drag.active
    /\ k \in 1..Len(rendered[type])
    /\ drag' = dragStartHandler(objs[rendered[type][k].proj])
    /\ over' = "none"
    /\ permit' = "none"
    /\ calls' = <<>>
    /\ alerted' = FALSE
    /\ error' = FALSE
    /\ lastOp' = NoOp
    /\ UNCHANGED <<validation, objs, projects, listeners, held, assigned, rendered, droppable,
                   titleInput, descriptionInput, peopleInput>>

\* a drag that did not start on a project row enters the page
ForeignDrag(payload) ==
    /\ ~drag.active
    /\ drag' = payload
    /\ over' = "none"
    /\ permit' = "none"
    /\ calls' = <<>>
    /\ alerted' = FALSE
    /\ error' = FALSE
    /\ lastOp' = NoOp
    /\ UNCHANGED <<validation, objs, projects, listeners, held, assigned, rendered, droppable,
                   titleInput, descriptionInput, peopleInput>>

\* dragover on the list of the given type; the dragged item is over one list at
\* a time and reaches another only after leaving the first
DragOver(type) ==
    /\ drag.active
    /\ over \in {"none", type}
    /\ over' = type
    /\ permit' = IF dragOverHandler(drag) THEN type ELSE "none"
    /\ droppable' = IF dragOverHandler(drag)
                    THEN [droppable EXCEPT ![type] = TRUE] ELSE droppable
    /\ calls' = <<>>
    /\ alerted' = FALSE
    /\ error' = FALSE
    /\ lastOp' = NoOp
    /\ UNCHANGED <<validation, objs, projects, listeners, held, assigned, rendered, drag,
                   titleInput, descriptionInput, peopleInput>>

\* dragleave on the list of the given type
DragLeave(type) ==
    /\ drag.active
    /\ over = type
    /\ over' = "none"
    /\ permit' = "none"
    /\ droppable' = [droppable EXCEPT ![type] = FALSE]
    /\ calls' = <<>>
    /\ alerted' = FALSE
    /\ error' = FALSE
    /\ lastOp' = NoOp
    /\ UNCHANGED <<validation, objs, projects, listeners, held, assigned, rendered, drag,
                   titleInput, descriptionInput, peopleInput>>

\* drop on the list of the given type: fired only where the last dragover was
\* cancelled; the drag is over afterwards
Drop(type) ==
    /\ drag.active
    /\ over = type
    /\ permit = type
    /\ \E st \in {dropHandler(Start, type, drag)} :
        /\ objs' = st.objs
        /\ projects' = st.projects
        /\ held' = st.held
        /\ assigned' = st.assigned
        /\ rendered' = st.rendered
        /\ calls' = st.calls
        /\ error' = st.error
        /\ alerted' = FALSE
        /\ drag' = NoDrag
        /\ over' = "none"
        /\ permit' = "none"
        /\ lastOp' = [op |-> "drop",
                      args |-> <<type, getData(drag, "text/plain"), DropStatus(type)>>]
        /\ UNCHANGED <<validation, listeners, droppable, titleInput, descriptionInput, peopleInput>>

\* the drag ends away from both lists (ProjectItem.dragEndHandler only logs)
DragEnd ==
    /\ drag.active
    /\ over = "none"
    /\ drag' = NoDrag
    /\ permit' = "none"
    /\ calls' = <<>>
    /\ alerted' = FALSE
    /\ error' = FALSE
    /\ lastOp' = NoOp
    /\ UNCHANGED <<validation, objs, projects, listeners, held, assigned, rendered, droppable, over,
                   titleInput, descriptionInput, peopleInput>>

(***************************************************************************)
(* Other subscribers of the store                                          *)
(***************************************************************************)
\* the list listener i holds
HeldItems(i) == IF held[i].live THEN projects ELSE held[i].items

\* some other code subscribes to the store
AddListener(op) ==
    LET st == addListener(Start, ProbeListener(op)) IN
    /\ Len(listeners) < MaxListeners
    /\ listeners' = st.listeners
    /\ held' = st.held
    /\ calls' = <<>>
    /\ alerted' = FALSE
    /\ error' = FALSE
    /\ lastOp' = NoOp
    /\ UNCHANGED <<validation, objs, projects, assigned, rendered, droppable, drag, over, permit,
                   titleInput, descriptionInput, peopleInput>>

\* a subscriber changes the list it kept from its last call
ProbeMutate(i, op) ==
    LET new == ApplyOp(op, HeldItems(i)) IN
    /\ i \in 1..Len(listeners)
    /\ listeners[i].kind = "probe"
    /\ new # HeldItems(i)
    /\ projects' = IF held[i].live THEN new ELSE projects
    /\ held' = [held EXCEPT ![i].items = new]
    /\ calls' = <<>>
    /\ alerted' = FALSE
    /\ error' = FALSE
    /\ lastOp' = [op |-> "probe", args |-> <<i>>]
    /\ UNCHANGED <<validation, objs, listeners, assigned, rendered, droppable, drag, over, permit,
                   titleInput, descriptionInput, peopleInput>>

\* the other value of the ProjectStatus enum
OtherStatus(status) == IF status = "Active" THEN "Finished" ELSE "Active"

\* a subscriber assigns the status field of entry k of the list it kept: the
\* entries of the copy are the store's own Project objects
ProbeWrite(i, k) ==
    /\ i \in 1..Len(listeners)
    /\ listeners[i].kind = "probe"
    /\ k \in 1..Len(HeldItems(i))
    /\ objs' = [objs EXCEPT ![HeldItems(i)[k]].status = OtherStatus(@)]
    /\ calls' = <<>>
    /\ alerted' = FALSE
    /\ error' = FALSE
    /\ lastOp' = [op |-> "write", args |-> <<i>>]
    /\ UNCHANGED <<validation, projects, listeners, held, assigned, rendered, droppable,
                   drag, over, permit, titleInput, descriptionInput, peopleInput>>

(***************************************************************************)
(* validate called on its own                                              *)
(***************************************************************************)
NoValidation ==
    [input |-> Validatable(StrValue(<<>>), FALSE, Absent, Absent, Absent, Absent),
     done |-> FALSE, ok |-> FALSE]

\* validate(validatableInput) is called and returns
Validate ==
    /\ ~validation.done
    /\ validation' = [validation EXCEPT !.done = TRUE, !.ok = validate(validation.input)]
    /\ lastOp' = [op |-> "validate", args |-> <<>>]
    /\ UNCHANGED <<objs, projects, listeners, held, assigned, rendered, droppable,
                   titleInput, descriptionInput, peopleInput, drag, over, permit,
                   calls, alerted, error>>

(***************************************************************************)
(* Inputs                                                                  *)
(***************************************************************************)
TitleStr == <<"T", "i", "t", "l", "e">>

ValidDesc == <<"v", "a", "l", "i", "d", " ", "d", "e", "s", "c">>

\* values Math.random().toString() may yield
IdPool == {"0.1", "0.2"}

Titles == {<<>>, TitleStr}

Descriptions == {ValidDesc}

Peoples == {<<"3">>, <<"6">>}

FormTitles == {<<>>, <<" ">>, TitleStr}

FormDescriptions ==
    {<<"a", "b", "c", "d">>, <<" ", " ", " ", " ", " ">>, <<"v", "a", "l", "i", "d">>}

FormPeoples == {<<>>, <<"1">>, <<"5">>, <<"6">>, <<"2", ".", "5">>, <<"x">>}

\* values and constraints validate is called with
ValidatedValues ==
    {StrValue(<<>>), StrValue(<<" ">>), StrValue(<<"a", "b">>), StrValue(<<"a", "b", "c">>),
     StrValue(<<"a", "b", "c", "d">>), NumValue(Num(0, 1)), NumValue(Num(1, 1)),
     NumValue(Num(25, 10)), NumValue(Num(5, 1)), NumValue(Num(6, 1)), NumValue(NaN)}

ValidatedInputs ==
    {Validatable(v, req, minLen, maxLen, mn, mx) :
        v \in ValidatedValues, req \in BOOLEAN,
        minLen \in {Absent, Present(3)}, maxLen \in {Absent, Present(3)},
        mn \in {Absent, Present(1)}, mx \in {Absent, Present(5)}}

ForeignPayloads ==
    {Payload(<<"text/plain">>, ""), Payload(<<"text/plain">>, "zzz"),
     Payload(<<"Files">>, ""), Payload(<<"text/html", "text/plain">>, "0.1"),
     NullTransfer}

(***************************************************************************)
(* Specifications                                                          *)
(***************************************************************************)
\* the state once ProjectInput and the active and the finished ProjectList are built
InitApp ==
    /\ objs = <<>>
    /\ projects = <<>>
    /\ listeners = <<ListListener("active"), ListListener("finished")>>
    /\ held = <<NoHeld, NoHeld>>
    /\ assigned = [t \in ListTypes |-> <<>>]
    /\ rendered = [t \in ListTypes |-> <<>>]
    /\ droppable = [t \in ListTypes |-> FALSE]
    /\ titleInput = <<>>
    /\ descriptionInput = <<>>
    /\ peopleInput = <<>>
    /\ drag = NoDrag
    /\ over = "none"
    /\ permit = "none"
    /\ calls = <<>>
    /\ alerted = FALSE
    /\ error = FALSE
    /\ lastOp = NoOp

Init == InitApp /\ validation = NoValidation

\* the application: the form, the two lists and drags
Next ==
    \/ \E t \in Titles, d \in Descriptions, p \in Peoples, id \in IdPool : Submit(t, d, p, id)
    \/ \E type \in ListTypes, k \in 1..MaxProjects : DragStart(type, k)
    \/ \E payload \in ForeignPayloads : ForeignDrag(payload)
    \/ \E type \in ListTypes : DragOver(type)
    \/ \E type \in ListTypes : DragLeave(type)
    \/ \E type \in ListTypes : Drop(type)
    \/ DragEnd

Spec == Init /\ [][Next]_vars

\* the form alone, with every class of input
NextForm ==
    \E t \in FormTitles, d \in FormDescriptions, p \in FormPeoples, id \in IdPool :
        Submit(t, d, p, id)

SpecForm == Init /\ [][NextForm]_vars

\* the store with further subscribers next to the two lists
NextObs ==
    \/ \E id \in IdPool : Submit(TitleStr, ValidDesc, <<"3">>, id)
    \/ \E type \in ListTypes, k \in 1..MaxProjects : DragStart(type, k)
    \/ \E type \in ListTypes : DragOver(type)
    \/ \E type \in ListTypes : Drop(type)
    \/ \E op \in CallbackOps : AddListener(op)
    \/ \E i \in 1..MaxListeners, op \in LaterOps : ProbeMutate(i, op)

SpecObs == Init /\ [][NextObs]_vars

\* the same, with subscribers that also assign fields of the projects handed
\* to them
NextShared ==
    \/ NextObs
    \/ \E i \in 1..MaxListeners, k \in 1..MaxHeld : ProbeWrite(i, k)

SpecShared == Init /\ [][NextShared]_vars

\* validate alone, called once on any of the inputs
InitValidate ==
    /\ InitApp
    /\ \E in \in ValidatedInputs : validation = [input |-> in, done |-> FALSE, ok |-> FALSE]

NextValidate == Validate

SpecValidate == InitValidate /\ [][NextValidate]_vars

(***************************************************************************)
(* Properties                                                              *)
(***************************************************************************)
\* the store's projects, in store order
StoreList == [i \in 1..Len(projects) |-> objs[projects[i]]]

\* the field constraints of the form, stated on the entered strings
TitleOk(t) == Trim(t) # <<>>

DescriptionOk(d) == Trim(d) # <<>> /\ Len(d) >= 5

PeopleOk(p) ==
    LET n == ToNumber(p) IN ~n.nan /\ n.num >= n.den /\ n.num <= 5 * n.den

MeetsConstraints(t, d, p) == TitleOk(t) /\ DescriptionOk(d) /\ PeopleOk(p)

SubmittedValid ==
    /\ lastOp.op = "submit"
    /\ MeetsConstraints(lastOp.args[1], lastOp.args[2], lastOp.args[3])

\* C1: a valid submission appends exactly one project, Active and with the
\* submitted title, description and people, and leaves every project stored
\* before at its position with all its fields.
C1_ValidSubmitAppendsOne ==
    [][SubmittedValid' =>
        /\ Len(projects') = Len(projects) + 1
        /\ \A i \in 1..Len(projects) :
              /\ projects'[i] = projects[i]
              /\ objs'[projects'[i]] = objs[projects[i]]
        /\ LET new == objs'[projects'[Len(projects')]] IN
              /\ new.status = "Active"
              /\ new.title = lastOp'.args[1]
              /\ new.description = lastOp'.args[2]
              /\ new.people = ToNumber(lastOp'.args[3])
              /\ \A i \in 1..Len(projects) : projects'[Len(projects')] # projects[i]
      ]_vars

\* C1 witness: a valid submission has just added a second project to a store
\* whose first project had been moved to Finished.
C1_Witness ==
    /\ SubmittedValid
    /\ Len(projects) = 2
    /\ StoreList[1].status = "Finished"
    /\ StoreList[2].status = "Active"

\* the last handler was a drop; the id and the status it passed to moveProject
Dropped == lastOp.op = "drop"

DropId == lastOp.args[2]

DropTo == lastOp.args[3]

\* the positions of the stored projects with the given id
WithId(id) == {i \in 1..Len(projects) : objs[projects[i]].id = id}

\* C2: moveProject(id, S), called when a project with that id exists and its
\* status differs from S, sets exactly that project's status to S, changes no
\* other project and no other field, keeps the list's length and order, and
\* notifies the listeners.
C2_MoveFlipsExactlyThatProject ==
    [][Dropped' =>
        \A i \in WithId(DropId') :
            objs[projects[i]].status # DropTo' =>
                /\ projects' = projects
                /\ Len(objs') = Len(objs)
                /\ objs'[projects[i]] = [objs[projects[i]] EXCEPT !.status = DropTo']
                /\ \A j \in 1..Len(projects) :
                      j # i => objs'[projects[j]] = objs[projects[j]]
                /\ Len(calls') = Len(listeners)
      ]_vars

\* C3: moveProject(id, S), called when the project with that id already has
\* status S, changes nothing in the store and invokes no listener, so neither
\* list is rendered again.
C3_MoveToSameStatusIsNoOp ==
    [][Dropped' =>
        ((\E i \in WithId(DropId') : objs[projects[i]].status = DropTo') =>
            /\ objs' = objs
            /\ projects' = projects
            /\ calls' = <<>>
            /\ assigned' = assigned
            /\ rendered' = rendered)
      ]_vars

\* C4: moveProject with an id no stored project has (the empty string included)
\* changes nothing in the store, invokes no listener and raises no error.
C4_MoveUnknownIdIsNoOp ==
    [][(Dropped' /\ WithId(DropId') = {}) =>
        /\ objs' = objs
        /\ projects' = projects
        /\ calls' = <<>>
        /\ assigned' = assigned
        /\ rendered' = rendered
        /\ error' = FALSE
        /\ alerted' = FALSE
      ]_vars

\* C4 witness: a drop whose payload text is the empty string has been handled
\* while the store holds a project.
C4_Witness ==
    /\ Dropped
    /\ DropId = ""
    /\ WithId(DropId) = {}
    /\ Len(projects) >= 1

Submitted == lastOp.op = "submit"

\* C5: a submission that violates a field constraint leaves the store's list
\* and every project as they were and invokes no listener; it raises the alert.
C5_InvalidSubmitChangesNothing ==
    [][(Submitted' /\ ~SubmittedValid') =>
        /\ objs' = objs
        /\ projects' = projects
        /\ calls' = <<>>
        /\ assigned' = assigned
        /\ rendered' = rendered
        /\ listeners' = listeners
        /\ alerted' = TRUE
        /\ error' = FALSE
      ]_vars

\* C5 witness: an invalid submission has been rejected with the alert while
\* the store holds a project.
C5_Witness ==
    /\ Submitted
    /\ ~SubmittedValid
    /\ alerted
    /\ Len(projects) >= 1

\* the constraints as C6 words them: non-empty instead of non-blank
LiteralOk(t, d, p) == t # <<>> /\ d # <<>> /\ Len(d) >= 5 /\ PeopleOk(p)

\* the last submission was forwarded to the store
Forwarded == Len(projects') = Len(projects) + 1

\* C6 as stated: a submission is accepted exactly if the title is non-empty,
\* the description is non-empty and at least 5 characters long and people is a
\* number within 1 to 5.
C6_AcceptedIffNonEmpty ==
    [][Submitted' =>
        (Forwarded <=> LiteralOk(lastOp'.args[1], lastOp'.args[2], lastOp'.args[3]))
      ]_vars

\* the three submissions C6 names
ExampleEmptyTitle == gatherUserInput(<<>>, <<"d", "e", "s", "c">>, <<"3">>)

ExampleShortDescription == gatherUserInput(TitleStr, <<"a", "b", "c", "d">>, <<"3">>)

ExampleTooManyPeople == gatherUserInput(TitleStr, ValidDesc, <<"6">>)

\* C6 amended: a submission is accepted exactly if title and description are
\* not blank (non-empty once surrounding whitespace is removed), the description
\* is at least 5 characters long and people is a number within 1 to 5; the three
\* named submissions are rejected, and a rejected submission keeps the count.
C6_AcceptedIffConstraintsMet ==
    /\ ~ExampleEmptyTitle.ok
    /\ ~ExampleShortDescription.ok
    /\ ~ExampleTooManyPeople.ok
    /\ [][Submitted' =>
            /\ Forwarded <=> SubmittedValid'
            /\ ~SubmittedValid' => Len(projects') = Len(projects)
         ]_vars

\* C6 witness: a description of exactly 5 characters was accepted with people 5,
\* after which a blank title was rejected.
C6_Witness ==
    /\ Submitted
    /\ lastOp.args[1] = <<" ">>
    /\ Len(projects) = 1
    /\ StoreList[1].description = <<"v", "a", "l", "i", "d">>
    /\ StoreList[1].people = Num(5, 1)

\* the projects of the given status, in store order
WithStatus(status) == SelectSeq(projects, LAMBDA r : objs[r].status = status)

Shown(type) == [k \in 1..Len(rendered[type]) |-> rendered[type][k].proj]

\* C7: the active list shows exactly the store's Active projects and the
\* finished list exactly its Finished projects, in store order, each project
\* once and in exactly one of the two lists, under its title.
C7_ListsShowStoreByStatus ==
    /\ Shown("active") = WithStatus("Active")
    /\ Shown("finished") = WithStatus("Finished")
    /\ \A type \in ListTypes : \A k \in 1..Len(rendered[type]) :
          rendered[type][k].text = objs[rendered[type][k].proj].title
    /\ \A i \in 1..Len(projects) :
          Cardinality({<<type, k>> \in ListTypes \X (1..Len(projects)) :
                          k <= Len(rendered[type]) /\ rendered[type][k].proj = projects[i]}) = 1

\* C7 witness: of two stored projects the first is shown in the finished list
\* and the second in the active list.
C7_Witness ==
    /\ Len(projects) = 2
    /\ StoreList[1].status = "Finished"
    /\ StoreList[2].status = "Active"
    /\ Shown("finished") = <<projects[1]>>
    /\ Shown("active") = <<projects[2]>>
    /\ calls # <<>>

\* the last handler changed the store: it added a project or set a status
StoreMutated == objs' # objs

\* C8: on every store mutation each registered listener is invoked exactly
\* once, in registration order, with the full project list as it is after the
\* mutation, within the handler that made the mutation.
C8_EveryListenerOnceInOrder ==
    [][StoreMutated =>
        /\ Len(calls') = Len(listeners)
        /\ \A k \in 1..Len(calls') :
              /\ calls'[k].listener = k
              /\ calls'[k].items = projects'
        /\ Len(projects') = Len(objs')
      ]_vars

\* C8 witness: three listeners, the last registered after the first project
\* was added, have been called in order with a list holding a Finished and an
\* Active project.
C8_Witness ==
    /\ Len(listeners) = 3
    /\ Len(calls) = 3
    /\ calls[3].listener = 3
    /\ Len(projects) = 2
    /\ StoreList[1].status = "Finished"
    /\ StoreList[2].status = "Active"
    /\ calls[3].items = projects

\* the list listener i holds, given the held lists hs and the store's list ps
ItemsOf(hs, ps, i) == IF hs[i].live THEN ps ELSE hs[i].items

\* C9: no listener is handed the store's own list; what a listener does to the
\* list it was handed, in its callback or later, changes neither the store's
\* list nor the list any other listener holds.
C9_ListenersGetCopies ==
    [][/\ \A i \in 1..Len(held') : ~held'[i].live
       /\ lastOp'.op = "probe" =>
            /\ projects' = projects
            /\ objs' = objs
            /\ \A j \in 1..Len(held) :
                  j # lastOp'.args[1] => ItemsOf(held', projects', j) = ItemsOf(held, projects, j)
       /\ calls' # <<>> =>
            /\ projects' \in {projects, Append(projects, Len(objs'))}
            /\ \A k \in 1..Len(calls') : calls'[k].items = projects'
      ]_vars

\* C9 witness: a subscriber that removes the last entry of the list it is
\* handed has been notified of a second project and has then changed its list
\* again; the store still lists both projects.
C9_Witness ==
    /\ lastOp.op = "probe"
    /\ Len(listeners) = 3
    /\ listeners[3] = ProbeListener("pop")
    /\ Len(projects) = 2
    /\ held[3].items = <<1, 1>>

\* C10: no two projects in the store have the same id.
C10_IdsUnique ==
    \A i, j \in 1..Len(projects) :
        i # j => objs[projects[i]].id # objs[projects[j]].id

\* what C11 asks of each constraint present on a field, the required test left aside
LimitsOk(in) ==
    /\ (in.minLength # Absent /\ in.value.type = "string") =>
            Len(in.value.str) >= in.minLength[1]
    /\ (in.maxLength # Absent /\ in.value.type = "string") =>
            Len(in.value.str) <= in.maxLength[1]
    /\ (in.min # Absent /\ in.value.type = "number") =>
            (~in.value.number.nan /\ in.value.number.num >= in.min[1] * in.value.number.den)
    /\ (in.max # Absent /\ in.value.type = "number") =>
            (~in.value.number.nan /\ in.value.number.num <= in.max[1] * in.value.number.den)

\* the value is non-empty: a string with a character, or any number
NonEmpty(v) == v.type = "number" \/ v.str # <<>>

\* the value is not blank: a string with a character that is no whitespace, or any number
NonBlank(v) == v.type = "number" \/ \E i \in 1..Len(v.str) : v.str[i] # " "

\* no variable of the application changes
AppUnchanged ==
    UNCHANGED <<objs, projects, listeners, held, assigned, rendered, droppable,
                titleInput, descriptionInput, peopleInput, drag, over, permit>>

\* C11 as stated: validate returns true exactly if every present constraint
\* passes, required meaning that the value is non-empty.
C11_ValidateIffNonEmptyAndLimits ==
    validation.done =>
        (validation.ok <=>
            /\ validation.input.required => NonEmpty(validation.input.value)
            /\ LimitsOk(validation.input))

\* C11 amended: validate returns true exactly if every present constraint
\* passes, required meaning that the value is not blank (non-empty once
\* whitespace is trimmed; a number always passes it), minLength and maxLength
\* applying to strings only and min and max to numbers only; the call changes
\* no state of the application.
C11_ValidateIffAllPresentPass ==
    [][validation'.done =>
        /\ validation'.ok <=>
              /\ validation'.input.required => NonBlank(validation'.input.value)
              /\ LimitsOk(validation'.input)
        /\ validation'.input = validation.input
        /\ AppUnchanged
      ]_vars

\* C11 witness: validate has returned true for a number with required, min and
\* max present although minLength and maxLength, which a number ignores, are
\* present too.
C11_Witness ==
    /\ validation.done
    /\ validation.ok
    /\ validation.input.value = NumValue(Num(25, 10))
    /\ validation.input.required
    /\ validation.input.minLength # Absent
    /\ validation.input.maxLength # Absent
    /\ validation.input.min # Absent
    /\ validation.input.max # Absent

\* the status of the projects a list of the given type shows
StatusOfList(type) == IF type = "finished" THEN "Finished" ELSE "Active"

\* C12: a project's status changes only between Active and Finished, and only
\* in a drop that carries the project's id on the list of the other status, to
\* that list's own status; no other handler and no notification changes a status.
C12_StatusChangesOnlyByDrop ==
    [][\A r \in 1..Len(objs) :
          objs'[r].status # objs[r].status =>
              /\ lastOp'.op = "drop"
              /\ lastOp'.args[2] = objs[r].id
              /\ objs'[r].status = StatusOfList(lastOp'.args[1])
              /\ {objs[r].status, objs'[r].status} = {"Active", "Finished"}
              /\ drag.active /\ over = lastOp'.args[1]
      ]_vars

\* C12 witness: a drop on the active list has just moved a Finished project
\* back to Active.
C12_Witness ==
    /\ Dropped
    /\ lastOp.args[1] = "active"
    /\ calls # <<>>
    /\ \E i \in WithId(DropId) : objs[projects[i]].status = "Active"

\* C13: every stored project's people value is an integer greater than 0.
C13_PeopleIsPositiveInteger ==
    \A i \in 1..Len(projects) :
        LET n == objs[projects[i]].people IN
        ~n.nan /\ n.num % n.den = 0 /\ n.num > 0

\* the projects a listener sees through the list it holds
SeenBy(os, hs, ps, i) ==
    [k \in 1..Len(ItemsOf(hs, ps, i)) |-> os[ItemsOf(hs, ps, i)[k]]]

\* the projects a ProjectList holds in assignedProjects
AssignedTo(os, as, type) == [k \in 1..Len(as[type]) |-> os[as[type][k]]]

\* C14: nothing a listener does with the list it was handed, assigning a field
\* of a project in it included, changes a project of the store or a project
\* another listener sees.
C14_SnapshotIsolated ==
    [][lastOp'.op \in {"probe", "write"} =>
        /\ [i \in 1..Len(projects') |-> objs'[projects'[i]]] = StoreList
        /\ \A j \in 1..Len(held) :
              j # lastOp'.args[1] =>
                  SeenBy(objs', held', projects', j) = SeenBy(objs, held, projects, j)
        /\ \A type \in ListTypes :
              AssignedTo(objs', assigned', type) = AssignedTo(objs, assigned, type)
      ]_vars

\* C15: the store's list changes only by one project appended at its end; a
\* stored project keeps its position and its id, title, description and people
\* in every step, so that status is the only field that is ever modified.
C15_StoreListOnlyGrows ==
    [][/\ \/ projects' = projects
          \/ /\ Len(projects') = Len(projects) + 1
             /\ SubSeq(projects', 1, Len(projects)) = projects
       /\ \A i \in 1..Len(projects) :
             /\ objs'[projects'[i]].id = objs[projects[i]].id
             /\ objs'[projects'[i]].title = objs[projects[i]].title
             /\ objs'[projects'[i]].description = objs[projects[i]].description
             /\ objs'[projects'[i]].people = objs[projects[i]].people
      ]_vars

\* C15 witness: with two stored projects and a subscriber that pops the list it
\* is handed, a drop has just changed the first project's status.
C15_Witness ==
    /\ Dropped
    /\ calls # <<>>
    /\ Len(projects) = 2
    /\ Len(listeners) = 3
    /\ listeners[3] = ProbeListener("pop")
    /\ StoreList[1].status = "Finished"
    /\ StoreList[1].title = TitleStr

\* C16: after an accepted submission the three form fields are empty; after a
\* rejected one each field holds the value that was entered.
C16_FieldsClearedIffAccepted ==
    [][Submitted' =>
        IF Len(projects') = Len(projects) + 1
        THEN /\ SubmittedValid'
             /\ titleInput' = <<>>
             /\ descriptionInput' = <<>>
             /\ peopleInput' = <<>>
        ELSE /\ ~SubmittedValid'
             /\ projects' = projects
             /\ titleInput' = lastOp'.args[1]
             /\ descriptionInput' = lastOp'.args[2]
             /\ peopleInput' = lastOp'.args[3]
      ]_vars

\* C16 witness: after an accepted submission, a submission with 6 people has
\* just been rejected and the fields still hold what was entered.
C16_Witness ==
    /\ Submitted
    /\ Len(projects) = 1
    /\ alerted
    /\ titleInput = TitleStr
    /\ descriptionInput # <<>>
    /\ peopleInput = <<"6">>

\* the drag has a data transfer whose type is text/plain
TextPlain(d) == d.transfer /\ d.types # <<>> /\ Head(d.types) = "text/plain"

\* the step is a dragover on the list over'
DraggedOver == drag.active /\ drag' = drag /\ over' \in ListTypes /\ lastOp'.op = "other"

\* C17: a dragover permits the drop and marks its list exactly if the drag has
\* a data transfer whose type is text/plain, otherwise it does neither; during
\* a drag that is not of that kind no drop is handled and no status changes.
C17_DragOverPermitsOnlyTextPlain ==
    [][/\ DraggedOver =>
            IF TextPlain(drag)
            THEN /\ permit' = over'
                 /\ droppable' = [droppable EXCEPT ![over'] = TRUE]
            ELSE /\ permit' = "none"
                 /\ droppable' = droppable
       /\ (drag.active /\ ~TextPlain(drag)) =>
            /\ lastOp'.op # "drop"
            /\ \A r \in 1..Len(objs) : objs'[r].status = objs[r].status
      ]_vars

\* C17 witness: a drag without a data transfer is over the finished list, with
\* a project stored; no drop is permitted and the list is not marked.
C17_Witness ==
    /\ drag = NullTransfer
    /\ over = "finished"
    /\ permit = "none"
    /\ ~droppable["finished"]
    /\ Len(projects) >= 1

\* C18: a list is marked droppable only while a text/plain drag is over it; in
\* particular no list is marked when no drag is in progress.
C18_MarkedOnlyWhileDraggedOver ==
    \A type \in ListTypes :
        droppable[type] => drag.active /\ over = type /\ TextPlain(drag)

====
